---- MODULE Spec2Model ----
(***************************************************************************)
(* open-bamz-code-editor: the file API (file-api.mjs, here                 *)
(* src/unnamed/part_000), the history store (git.mjs, the second half of   *)
(* src/ssh.mjs) and the SSH sandbox manager (src/ssh.mjs).                 *)
(*                                                                         *)
(* A path is a sequence of segments; an absolute path starts at the        *)
(* filesystem root <<>>.  The filesystem is the pair (files, dirs).  A     *)
(* history store is kept per directory it was initialised in; its commits  *)
(* carry the tree of tracked files.                                        *)
(***************************************************************************)
EXTENDS Naturals, Integers, Sequences, FiniteSets, TLC

VARIABLES
    files,      \* absolute path -> content, the regular files on disk
    dirs,       \* set of absolute paths, the directories on disk
    repos,      \* repository root -> sequence of commits [message, tree]
    lastReq,    \* the last HTTP request handled by the file API, with its outcome
    nReq,       \* number of HTTP requests handled so far
    reachable,  \* whether the SSH container accepts connections
    accounts,   \* tenant -> [exists, password, keys, keysMode] in the SSH container
    nextPw,     \* next value drawn by generatePassword
    call,       \* call slot -> the SSHSandboxManager call in progress
    nCalls,     \* number of SSHSandboxManager calls started so far
    chowns,     \* chown commands run by adjustFilePermissions, oldest first
    index,      \* repository root -> the tree staged by git add, for saves in steps
    saves       \* save slot -> the save request in progress, step by step

vars ==
    <<files, dirs, repos, lastReq, nReq, reachable, accounts, nextPw, call, nCalls, chowns,
      index, saves>>

fileVars == <<files, dirs, repos, lastReq, nReq>>
sshVars == <<reachable, accounts, nextPw, call, nCalls, chowns>>
stepVars == <<index, saves>>

-----------------------------------------------------------------------------
(* Bounds and input alphabets *)

MaxReq == 3

\* SSHSandboxManager calls in one behaviour, and how many run at once
MaxCalls == 3
NumSlots == 2

\* the tenants that send requests, and another tenant's folder on the disk
Tenants == {"a"}
OtherTenant == "b"

\* req.query.dir, split at "/"; <<>> is the empty string
Dirs == {<<"public">>, <<>>, <<"dev">>}

\* req.body.path / req.query.path, split at "/"; <<>> is a missing path
Paths == { <<"f">>, <<"..", "..", "b", "public", "f">> }

\* the requests: access granted and a path inside the tree for every dir, a
\* path with parent segments, and one request for each way of being turned down
Inputs ==
    { [dir |-> d, path |-> <<"f">>, granted |-> TRUE] : d \in Dirs }
    \cup { [dir |-> <<"public">>, path |-> <<"..", "..", "b", "public", "f">>, granted |-> TRUE],
           [dir |-> <<"public">>, path |-> <<"f">>, granted |-> FALSE],
           [dir |-> <<"..">>, path |-> <<"f">>, granted |-> TRUE],
           [dir |-> <<"public">>, path |-> <<"f*">>, granted |-> TRUE],
           [dir |-> <<"public">>, path |-> <<>>, granted |-> TRUE] }

\* the listing requests
ListInputs ==
    { [dir |-> d, granted |-> TRUE] : d \in Dirs \cup {<<"..">>} }
    \cup { [dir |-> <<"public">>, granted |-> FALSE] }

\* the uploaded file and req.body.commitMessage; "" is no message
Uploads ==
    { [data |-> "c1", commitMessage |-> ""], [data |-> "c2", commitMessage |-> ""],
      [data |-> "c1", commitMessage |-> "msg"] }

-----------------------------------------------------------------------------
(* Program constants: part_000 lines 11-16 *)

DEFAULT_DIR == <<"public">>
BRANCHES_DIR == "branches"
IGNORED_FILES == {".git", ".DS_Store", ".gitignore", "node_modules"}

\* process.env.DATA_DIR
DATA_DIR == <<"data">>

\* the characters of REGEXP_CHECK_PATH are those of every segment but these
ForbiddenSegments == {"f*"}

\* the accounts of the SSH container are named after the applications
Users == Tenants \cup {OtherTenant}

\* passwords a caller supplies; generatePassword draws <<"generated", n>>
GivenPasswords == { <<"given", 1>> }
NoPassword == <<>>

\* public keys as uploaded, character by character
PublicKeys == { <<"k">>, <<" ", "k", "\n">> }

\* this.sshPort: options.sshPort || process.env.SSH_PORT || 22
sshPort == 22

\* pluginSlots.changesListeners: the number of registered change listeners
NumListeners == 2

-----------------------------------------------------------------------------
(* Paths: Node's path module on absolute POSIX paths *)

IsPrefix(a, b) == Len(a) <= Len(b) /\ SubSeq(b, 1, Len(a)) = a

RECURSIVE NormalizeOnto(_, _)
\* path.normalize: "." and "" vanish, ".." removes the segment before it and
\* is dropped at the root
NormalizeOnto(acc, rest) ==
    IF rest = <<>> THEN acc
    ELSE LET s == Head(rest) IN
         NormalizeOnto(
            IF s = ".." THEN (IF acc = <<>> THEN acc ELSE SubSeq(acc, 1, Len(acc) - 1))
            ELSE IF s \in {".", ""} THEN acc
            ELSE Append(acc, s),
            Tail(rest))

\* path.join(base, rel) for an absolute base
pathJoin(base, rel) == NormalizeOnto(<<>>, base \o rel)

\* path.dirname of an absolute path
pathDirname(p) == IF p = <<>> THEN <<>> ELSE SubSeq(p, 1, Len(p) - 1)

RECURSIVE CommonLen(_, _)
CommonLen(a, b) ==
    IF a = <<>> \/ b = <<>> \/ Head(a) # Head(b) THEN 0
    ELSE 1 + CommonLen(Tail(a), Tail(b))

\* path.relative(from, to) for absolute normalized paths
pathRelative(from, to) ==
    LET k == CommonLen(from, to) IN
    [i \in 1..(Len(from) - k) |-> ".."] \o SubSeq(to, k + 1, Len(to))

\* dir.match(/\.\./)
MatchesDotDot(dir) == \E i \in 1..Len(dir) : dir[i] = ".."

\* path.match(REGEXP_CHECK_PATH)
MatchesCheckPath(p) == \A i \in 1..Len(p) : p[i] \notin ForbiddenSegments

TenantRoot(appName) == pathJoin(DATA_DIR, <<"apps", appName>>)

\* getSecurePath(dir, appName): [ok |-> FALSE] is the thrown "Forbidden path"
getSecurePath(dir, appName) ==
    IF MatchesDotDot(dir) THEN [ok |-> FALSE, path |-> <<>>]
    ELSE LET basePath == TenantRoot(appName) IN
         IF dir = DEFAULT_DIR \/ dir = <<>>
         THEN [ok |-> TRUE, path |-> pathJoin(basePath, dir)]
         ELSE [ok |-> TRUE, path |-> pathJoin(basePath, <<BRANCHES_DIR>> \o dir)]

-----------------------------------------------------------------------------
(* The filesystem: fs/promises and fs-extra *)

DirExists(ds, p) == p = <<>> \/ p \in ds

Prefixes(p) == { SubSeq(p, 1, k) : k \in 1..Len(p) }

\* mkdirs(p, {recursive: true}) succeeds unless a regular file is in the way
mkdirsOk(fs, p) == \A q \in Prefixes(p) : q \notin DOMAIN fs
mkdirs(ds, p) == ds \cup Prefixes(p)

readFileMissingAsEmpty(fs, p) ==
    [ok |-> TRUE, data |-> IF p \in DOMAIN fs THEN fs[p] ELSE ""]

\* readFile(p): the data of a regular file; anything else throws
readFile(fs, p) ==
    IF p \in DOMAIN fs THEN [ok |-> TRUE, data |-> fs[p]]
    ELSE [ok |-> FALSE, data |-> "undefined"]

\* writeFile(p, data) needs the parent directory and fails on a directory
writeFileOk(fs, ds, p) == p # <<>> /\ p \notin ds /\ DirExists(ds, pathDirname(p))
writeFile(fs, p, data) == [q \in DOMAIN fs \cup {p} |-> IF q = p THEN data ELSE fs[q]]

\* unlink(p) removes a regular file and fails on anything else
unlinkOk(fs, p) == p \in DOMAIN fs
unlink(fs, p) == [q \in DOMAIN fs \ {p} |-> fs[q]]

\* fs-extra remove(p): rm -rf, no error when p is absent
removeFiles(fs, p) == [q \in { x \in DOMAIN fs : ~IsPrefix(p, x) } |-> fs[q]]
removeDirs(ds, p) == { x \in ds : ~IsPrefix(p, x) }

\* readdir(dir), recursively as getFiles does, skipping IGNORED_FILES: the
\* entries (files and directories) below dir, relative to dir
getFiles(fs, ds, dir) ==
    { SubSeq(x, Len(dir) + 1, Len(x)) :
        x \in { y \in DOMAIN fs \cup ds :
                    /\ IsPrefix(dir, y) /\ y # dir
                    /\ \A i \in (Len(dir) + 1)..Len(y) : y[i] \notin IGNORED_FILES } }

-----------------------------------------------------------------------------
(* The history store: simple-git on one directory (git.mjs) *)

EmptyTree == [p \in {} |-> ""]

\* the files git tracks from root: those below it, outside .git and outside
\* any other store nested in it
Tracked(fs, rs, root) ==
    [p \in { x \in DOMAIN fs :
                /\ IsPrefix(root, x)
                /\ \A i \in 1..Len(x) : x[i] # ".git"
                /\ \A r \in DOMAIN rs : (r # root /\ IsPrefix(root, r)) => ~IsPrefix(r, x) }
        |-> fs[p]]

HeadTree(rs, root) ==
    IF root \notin DOMAIN rs \/ rs[root] = <<>> THEN EmptyTree
    ELSE rs[root][Len(rs[root])].tree

\* initGitIfNotExists(directoryPath): stat, else mkdir -p; then git init
\* unless checkIsRepo()
initGitOk(fs, directoryPath) == mkdirsOk(fs, directoryPath)
initGitDirs(ds, directoryPath) == mkdirs(ds, directoryPath)
initGitRepos(rs, directoryPath) ==
    IF directoryPath \in DOMAIN rs THEN rs ELSE rs @@ (directoryPath :> <<>>)

\* git.add('.') then git.status(): status.files, the paths that differ from
\* the last commit
statusFiles(fs, rs, repoPath) ==
    LET work == Tracked(fs, rs, repoPath)
        head == HeadTree(rs, repoPath)
    IN { p \in DOMAIN work \cup DOMAIN head :
            ~(p \in DOMAIN work /\ p \in DOMAIN head /\ work[p] = head[p]) }

\* commitAllChanges(repoPath, {commitMessage}) after initGitIfNotExists
commitAllChangesAlways(fs, rs, repoPath, commitMessage) ==
    LET rs1 == initGitRepos(rs, repoPath) IN
    [rs1 EXCEPT ![repoPath] =
        Append(@, [message |-> commitMessage, tree |-> Tracked(fs, rs1, repoPath)])]

commitAllChanges(fs, rs, repoPath, commitMessage) ==
    LET rs1 == initGitRepos(rs, repoPath) IN
    IF statusFiles(fs, rs1, repoPath) # {}
    THEN [rs1 EXCEPT ![repoPath] =
            Append(@, [message |-> commitMessage, tree |-> Tracked(fs, rs1, repoPath)])]
    ELSE rs1

\* rev-list --count HEAD on a store that has commits
CommitCountOf(rs, root) == IF root \in DOMAIN rs THEN Len(rs[root]) ELSE 0

-----------------------------------------------------------------------------
(* The file API: requests and their outcomes *)

NoEvent ==
    [appName |-> "", filePath |-> <<>>, relativePath |-> <<>>,
     previousContent |-> "", newContent |-> "", changeType |-> "", basePath |-> <<>>]

NoMessage == [text |-> "", path |-> <<>>]

NoRequest ==
    [op |-> "none", appName |-> "", dir |-> <<>>, path |-> <<>>, granted |-> FALSE,
     status |-> 0, trace |-> <<>>, filePath |-> <<>>, commits |-> 0, message |-> NoMessage,
     thrower |-> 0, invoked |-> <<>>, event |-> NoEvent, listing |-> {}, content |-> "",
     branch |-> "", from |-> "", error |-> "", existed |-> FALSE, headBorn |-> FALSE,
     branchesBefore |-> {}, hash |-> 0, before |-> "", after |-> "",
     wasDeleted |-> FALSE, wasCreated |-> FALSE, count |-> 0]

Request(op, appName, dir, path, granted) ==
    [NoRequest EXCEPT !.op = op, !.appName = appName, !.dir = dir, !.path = path,
                      !.granted = granted]

\* the request ends with this status after the steps of trace
Reply(req, status, trace) == [req EXCEPT !.status = status, !.trace = trace]

\* `${text} ${path.relative(filesDirectory, filePath)}`
DefaultMessage(text, filesDirectory, filePath) ==
    [text |-> text, path |-> pathRelative(filesDirectory, filePath)]
CustomMessage(m) == [text |-> m, path |-> <<>>]

\* onFileChange: the listeners are called in registration order; a listener
\* that throws ends the loop.  thrower = 0: none throws.
Invoked(thrower) == [i \in 1..(IF thrower = 0 THEN NumListeners ELSE thrower) |-> i]

\* POST /files/:appName/save
Save(appName, dir, path, granted) ==
    LET req == Request("save", appName, dir, path, granted)
        sp == getSecurePath(dir, appName)
        filesDirectory == sp.path
        filePath == pathJoin(filesDirectory, path)
        ds1 == mkdirs(dirs, pathDirname(filePath))
        previousContent == readFile(files, filePath).data
    IN
    /\ nReq < MaxReq
    /\ nReq' = nReq + 1
    /\ UNCHANGED <<sshVars, stepVars>>
    /\ IF path = <<>> THEN
            /\ lastReq' = Reply(req, 400, <<>>)
            /\ UNCHANGED <<files, dirs, repos>>
       ELSE IF ~MatchesCheckPath(path) THEN
            /\ lastReq' = Reply(req, 500, <<>>)
            /\ UNCHANGED <<files, dirs, repos>>
       ELSE IF ~granted THEN
            /\ lastReq' = Reply(req, 403, <<"check">>)
            /\ UNCHANGED <<files, dirs, repos>>
       ELSE IF ~sp.ok THEN
            /\ lastReq' = Reply(req, 500, <<"check", "getSecurePath">>)
            /\ UNCHANGED <<files, dirs, repos>>
       ELSE IF ~mkdirsOk(files, pathDirname(filePath)) THEN
            /\ lastReq' = [Reply(req, 500, <<"check", "getSecurePath", "mkdirs">>)
                              EXCEPT !.filePath = filePath]
            /\ UNCHANGED <<files, dirs, repos>>
       ELSE IF ~writeFileOk(files, ds1, filePath) THEN
            /\ lastReq' = [Reply(req, 500,
                                 <<"check", "getSecurePath", "mkdirs", "readFile", "writeFile">>)
                              EXCEPT !.filePath = filePath]
            /\ dirs' = ds1
            /\ UNCHANGED <<files, repos>>
       ELSE \E upload \in Uploads :
            LET data == upload.data
                fs1 == writeFile(files, filePath, data)
                message == IF upload.commitMessage # "" THEN CustomMessage(upload.commitMessage)
                           ELSE DefaultMessage("Save file", filesDirectory, filePath)
                rs1 == commitAllChanges(fs1, repos, filesDirectory, message)
                event == [appName |-> appName, filePath |-> filePath,
                          relativePath |-> path, previousContent |-> previousContent,
                          newContent |-> data, changeType |-> "save",
                          basePath |-> filesDirectory]
                written == [req EXCEPT !.filePath = filePath, !.content = data,
                                       !.message = message]
            IN
            /\ files' = fs1
            /\ IF ~initGitOk(fs1, filesDirectory) THEN
                    /\ lastReq' = Reply(written, 500,
                            <<"check", "getSecurePath", "mkdirs", "readFile", "writeFile",
                              "stat", "commitAllChanges">>)
                    /\ dirs' = ds1
                    /\ UNCHANGED repos
               ELSE \E thrower \in 0..NumListeners :
                    /\ dirs' = initGitDirs(ds1, filesDirectory)
                    /\ repos' = rs1
                    /\ lastReq' =
                         [Reply(written, IF thrower = 0 THEN 200 ELSE 500,
                                <<"check", "getSecurePath", "mkdirs", "readFile", "writeFile",
                                  "stat", "commitAllChanges", "onFileChange">>)
                            EXCEPT !.commits = CommitCountOf(rs1, filesDirectory)
                                               - CommitCountOf(repos, filesDirectory),
                                   !.thrower = thrower,
                                   !.invoked = Invoked(thrower),
                                   !.event = event]

\* what the listeners receive for an argument the caller left out
Undefined == "undefined"
UndefinedPath == <<"undefined">>

\* POST /files/:appName/createDir
CreateDir(appName, dir, path, granted) ==
    LET req == Request("createDir", appName, dir, path, granted)
        sp == getSecurePath(dir, appName)
        filePath == pathJoin(sp.path, path)
    IN
    /\ nReq < MaxReq
    /\ nReq' = nReq + 1
    /\ UNCHANGED <<files, repos>>
    /\ UNCHANGED <<sshVars, stepVars>>
    /\ IF path = <<>> THEN
            lastReq' = Reply(req, 400, <<>>) /\ UNCHANGED dirs
       ELSE IF ~MatchesCheckPath(path) THEN
            lastReq' = Reply(req, 500, <<>>) /\ UNCHANGED dirs
       ELSE IF ~granted THEN
            lastReq' = Reply(req, 403, <<"check">>) /\ UNCHANGED dirs
       ELSE IF ~sp.ok THEN
            lastReq' = Reply(req, 500, <<"check", "getSecurePath">>) /\ UNCHANGED dirs
       ELSE IF ~mkdirsOk(files, filePath) THEN
            /\ lastReq' = [Reply(req, 500, <<"check", "getSecurePath", "mkdirs">>)
                              EXCEPT !.filePath = filePath]
            /\ UNCHANGED dirs
       ELSE /\ lastReq' = [Reply(req, 200, <<"check", "getSecurePath", "mkdirs", "stat">>)
                              EXCEPT !.filePath = filePath]
            /\ dirs' = mkdirs(dirs, filePath)

\* GET /files/:appName/delete.  bodyParsed: whether the host application's
\* body parser leaves req.body an object on a GET request; when it does not,
\* reading req.body.path throws a TypeError.
Delete(appName, dir, path, granted, bodyParsed) ==
    LET req == Request("delete", appName, dir, path, granted)
        sp == getSecurePath(dir, appName)
        filesDirectory == sp.path
        filePath == pathJoin(filesDirectory, path)
        fs1 == unlink(files, filePath)
        message == DefaultMessage("Delete file", filesDirectory, filePath)
        rs1 == commitAllChanges(fs1, repos, filesDirectory, message)
        previousContent == readFile(files, filePath)
        removed == [req EXCEPT !.filePath = filePath, !.message = message,
                               !.content = previousContent.data]
    IN
    /\ nReq < MaxReq
    /\ nReq' = nReq + 1
    /\ UNCHANGED <<sshVars, stepVars>>
    /\ IF path = <<>> THEN
            /\ lastReq' = Reply(req, 400, <<>>)
            /\ UNCHANGED <<files, dirs, repos>>
       ELSE IF ~MatchesCheckPath(path) THEN
            \* line 246 reads req.body.path outside the try block
            /\ lastReq' = Reply(req, IF bodyParsed THEN 500 ELSE 0, <<>>)
            /\ UNCHANGED <<files, dirs, repos>>
       ELSE IF ~sp.ok THEN
            /\ lastReq' = Reply(req, 500, <<"getSecurePath">>)
            /\ UNCHANGED <<files, dirs, repos>>
       ELSE IF ~previousContent.ok THEN
            /\ lastReq' = [Reply(req, 500, <<"getSecurePath", "readFile">>)
                              EXCEPT !.filePath = filePath]
            /\ UNCHANGED <<files, dirs, repos>>
       ELSE IF ~granted THEN
            /\ lastReq' = [Reply(req, 403, <<"getSecurePath", "readFile", "check">>)
                              EXCEPT !.filePath = filePath,
                                     !.content = previousContent.data]
            /\ UNCHANGED <<files, dirs, repos>>
       ELSE IF ~unlinkOk(files, filePath) THEN
            /\ lastReq' = [Reply(req, 500, <<"getSecurePath", "readFile", "check", "unlink">>)
                              EXCEPT !.filePath = filePath]
            /\ UNCHANGED <<files, dirs, repos>>
       ELSE /\ files' = fs1
            /\ IF ~initGitOk(fs1, filesDirectory) THEN
                    /\ lastReq' = Reply(removed, 500,
                            <<"getSecurePath", "readFile", "check", "unlink", "commitAllChanges">>)
                    /\ UNCHANGED <<dirs, repos>>
               ELSE /\ dirs' = initGitDirs(dirs, filesDirectory)
                    /\ repos' = rs1
                    /\ IF ~bodyParsed THEN
                            \* line 259: TypeError while building the argument
                            lastReq' =
                              [Reply(removed, 500,
                                     <<"getSecurePath", "readFile", "check", "unlink",
                                       "commitAllChanges", "req.body.path">>)
                                 EXCEPT !.commits = CommitCountOf(rs1, filesDirectory)
                                                    - CommitCountOf(repos, filesDirectory)]
                       ELSE \E thrower \in 0..NumListeners :
                            lastReq' =
                              [Reply(removed, IF thrower = 0 THEN 200 ELSE 500,
                                     <<"getSecurePath", "readFile", "check", "unlink",
                                       "commitAllChanges", "onFileChange">>)
                                 EXCEPT !.commits = CommitCountOf(rs1, filesDirectory)
                                                    - CommitCountOf(repos, filesDirectory),
                                        !.thrower = thrower,
                                        !.invoked = Invoked(thrower),
                                        !.event =
                                            [appName |-> appName, filePath |-> filePath,
                                             relativePath |-> UndefinedPath,
                                             previousContent |-> previousContent.data,
                                             newContent |-> "null", changeType |-> "delete",
                                             basePath |-> filesDirectory]]

\* the stores whose metadata lies at or below p go with it
removeRepos(rs, p) == [r \in { x \in DOMAIN rs : ~IsPrefix(p, x) } |-> rs[r]]

\* GET /files/:appName/deleteDir
DeleteDir(appName, dir, path, granted, bodyParsed) ==
    LET req == Request("deleteDir", appName, dir, path, granted)
        sp == getSecurePath(dir, appName)
        filesDirectory == sp.path
        filePath == pathJoin(filesDirectory, path)
        fs1 == removeFiles(files, filePath)
        ds1 == removeDirs(dirs, filePath)
        rs0 == removeRepos(repos, filePath)
        message == DefaultMessage("Delete directory", filesDirectory, filePath)
        rs1 == commitAllChanges(fs1, rs0, filesDirectory, message)
        removed == [req EXCEPT !.filePath = filePath, !.message = message]
    IN
    /\ nReq < MaxReq
    /\ nReq' = nReq + 1
    /\ UNCHANGED <<sshVars, stepVars>>
    /\ IF path = <<>> THEN
            /\ lastReq' = Reply(req, 400, <<>>)
            /\ UNCHANGED <<files, dirs, repos>>
       ELSE IF ~MatchesCheckPath(path) THEN
            \* line 277 reads req.body.path outside the try block
            /\ lastReq' = Reply(req, IF bodyParsed THEN 500 ELSE 0, <<>>)
            /\ UNCHANGED <<files, dirs, repos>>
       ELSE IF ~sp.ok THEN
            /\ lastReq' = Reply(req, 500, <<"getSecurePath">>)
            /\ UNCHANGED <<files, dirs, repos>>
       ELSE IF ~granted THEN
            /\ lastReq' = [Reply(req, 403, <<"getSecurePath", "check">>)
                              EXCEPT !.filePath = filePath]
            /\ UNCHANGED <<files, dirs, repos>>
       ELSE /\ files' = fs1
            /\ IF ~initGitOk(fs1, filesDirectory) THEN
                    /\ lastReq' = Reply(removed, 500,
                            <<"getSecurePath", "check", "remove", "commitAllChanges">>)
                    /\ dirs' = ds1
                    /\ repos' = rs0
               ELSE \E thrower \in 0..NumListeners :
                    /\ dirs' = initGitDirs(ds1, filesDirectory)
                    /\ repos' = rs1
                    /\ lastReq' =
                         [Reply(removed, IF thrower = 0 THEN 200 ELSE 500,
                                <<"getSecurePath", "check", "remove", "commitAllChanges",
                                  "onFileChange">>)
                            EXCEPT !.commits = CommitCountOf(rs1, filesDirectory)
                                               - CommitCountOf(rs0, filesDirectory),
                                   !.thrower = thrower,
                                   !.invoked = Invoked(thrower),
                                   !.event =
                                       [appName |-> appName, filePath |-> filePath,
                                        relativePath |-> UndefinedPath,
                                        previousContent |-> Undefined,
                                        newContent |-> Undefined, changeType |-> "deleteDir",
                                        basePath |-> filesDirectory]]

\* GET /files/:appName/content
ReadContent(appName, dir, path, granted) ==
    LET req == Request("content", appName, dir, path, granted)
        sp == getSecurePath(dir, appName)
        filePath == pathJoin(sp.path, path)
    IN
    /\ nReq < MaxReq
    /\ nReq' = nReq + 1
    /\ UNCHANGED <<files, dirs, repos>>
    /\ UNCHANGED <<sshVars, stepVars>>
    /\ lastReq' =
        IF path = <<>> THEN Reply(req, 400, <<>>)
        ELSE IF ~MatchesCheckPath(path) THEN Reply(req, 500, <<>>)
        ELSE IF ~sp.ok THEN Reply(req, 500, <<"getSecurePath">>)
        ELSE IF ~granted THEN
            [Reply(req, 403, <<"getSecurePath", "check">>) EXCEPT !.filePath = filePath]
        ELSE IF ~readFile(files, filePath).ok THEN
            [Reply(req, 500, <<"getSecurePath", "check", "readFile">>)
                EXCEPT !.filePath = filePath]
        ELSE [Reply(req, 200, <<"getSecurePath", "check", "readFile">>)
                EXCEPT !.filePath = filePath, !.content = readFile(files, filePath).data]

\* GET /files/:appName
ListFiles(appName, dir, granted) ==
    LET req == Request("list", appName, dir, <<>>, granted)
        sp == getSecurePath(dir, appName)
        filesDirectory == sp.path
    IN
    /\ nReq < MaxReq
    /\ nReq' = nReq + 1
    /\ UNCHANGED <<files, dirs, repos>>
    /\ UNCHANGED <<sshVars, stepVars>>
    /\ lastReq' =
        IF ~granted THEN Reply(req, 403, <<"check">>)
        ELSE IF ~sp.ok THEN Reply(req, 500, <<"check", "getSecurePath">>)
        ELSE IF ~DirExists(dirs, filesDirectory) THEN
            [Reply(req, 500, <<"check", "getSecurePath", "readdir">>)
                EXCEPT !.filePath = filesDirectory]
        ELSE [Reply(req, 200, <<"check", "getSecurePath", "readdir">>)
                EXCEPT !.filePath = filesDirectory,
                       !.listing = getFiles(files, dirs, filesDirectory)]

-----------------------------------------------------------------------------
(* Properties of the file API *)

Range(seq) == { seq[i] : i \in DOMAIN seq }

\* the steps of a handler that read or write the disk
FsSteps ==
    {"mkdirs", "readFile", "writeFile", "stat", "unlink", "remove", "readdir",
     "commitAllChanges"}

Touched(req) == Range(req.trace) \cap FsSteps # {}

\* the handler went past this step
Passed(req, step) == \E i \in 1..(Len(req.trace) - 1) : req.trace[i] = step

PathOps == {"content", "save", "createDir", "delete", "deleteDir"}

\* C1: the path a file operation works on is a descendant of the tenant's
\* root, and a relative path with a ".." segment is turned down before the
\* disk is touched.
C1_PathStaysInTenantRoot ==
    (lastReq.op \in PathOps /\ Touched(lastReq)) =>
        /\ ~MatchesDotDot(lastReq.path)
        /\ IsPrefix(TenantRoot(lastReq.appName), lastReq.filePath)

DefaultSelectors == {DEFAULT_DIR, <<>>}

\* the entries the listing of dir shows, as absolute paths
ListedIn(appName, dir) ==
    LET root == getSecurePath(dir, appName).path IN
    { pathJoin(root, e) : e \in getFiles(files, dirs, root) }

\* C2: a file saved with a named branch selector is in no listing of the
\* default branch ("public" or the empty selector), and a file saved to the
\* default branch is in no listing of a named branch.
C2_BranchIsolation ==
    (lastReq.op = "save" /\ lastReq.status = 200 /\ ~MatchesDotDot(lastReq.path)) =>
        \A other \in Dirs :
            ((lastReq.dir \in DefaultSelectors) # (other \in DefaultSelectors)) =>
                lastReq.filePath \notin ListedIn(lastReq.appName, other)

\* the request committed: commitAllChanges returned
Committed(req) ==
    req.op \in {"save", "delete", "deleteDir"} /\ Passed(req, "commitAllChanges")

C3_Step ==
    LET r == lastReq'
        root == getSecurePath(r.dir, r.appName).path
        base == IF r.op = "deleteDir" THEN removeRepos(repos, r.filePath) ELSE repos
        before == IF root \in DOMAIN base THEN base[root] ELSE <<>>
        work == Tracked(files', repos', root)
        repeated ==
            /\ lastReq.op = "save" /\ Committed(lastReq) /\ r.op = "save"
            /\ lastReq.appName = r.appName /\ lastReq.dir = r.dir
            /\ lastReq.path = r.path /\ lastReq.content = r.content
    IN (nReq' = nReq + 1 /\ Committed(r)) =>
        /\ IF work = HeadTree(base, root)
           THEN repos'[root] = before
           ELSE repos'[root] = Append(before, [message |-> r.message, tree |-> work])
        /\ r.commits = Len(repos'[root]) - Len(before)
        /\ repeated => r.commits = 0

\* C3: commitAllChanges adds no commit when the staged tree equals the tree of
\* the last commit and exactly one commit, with the message it was given,
\* otherwise; a save that repeats the save before it adds no commit.
C3_CommitOnlyPendingChanges == [][C3_Step]_vars

\* a save that wrote the content the last commit already holds
C3_Witness ==
    /\ lastReq.op = "save" /\ lastReq.status = 200 /\ lastReq.commits = 0
    /\ nReq >= 2
    /\ HeadTree(repos, getSecurePath(lastReq.dir, lastReq.appName).path)[lastReq.filePath]
            = lastReq.content

\* C4: a successful save runs exactly one chown of the written path for the
\* tenant's account.
C4_SaveReassertsOwnership ==
    [][(nReq' = nReq + 1 /\ lastReq'.op = "save" /\ lastReq'.status = 200) =>
            /\ Len(chowns') = Len(chowns) + 1
            /\ chowns'[Len(chowns')].appName = lastReq'.appName]_vars

\* C5: when a listener throws during the notification of a save, the save
\* still answers success, every listener is still invoked, and the file and
\* its commit stay.
C5_ListenerFailureIsContained ==
    (lastReq.op = "save" /\ lastReq.thrower # 0) =>
        /\ lastReq.status = 200
        /\ lastReq.invoked = [i \in 1..NumListeners |-> i]
        /\ lastReq.filePath \in DOMAIN files
        /\ files[lastReq.filePath] = lastReq.content

C6_Step ==
    LET r == lastReq'
        sp == getSecurePath(r.dir, r.appName)
        target == pathJoin(sp.path, r.path)
    IN (/\ nReq' = nReq + 1 /\ r.op = "delete"
        /\ r.path # <<>> /\ MatchesCheckPath(r.path) /\ sp.ok
        /\ target \notin DOMAIN files) =>
            /\ r.status = 500
            /\ r.trace # <<>> /\ r.trace[Len(r.trace)] = "readFile"
            /\ "unlink" \notin Range(r.trace)
            /\ "commitAllChanges" \notin Range(r.trace)
            /\ r.commits = 0 /\ r.invoked = <<>>
            /\ UNCHANGED <<files, dirs, repos>>

\* C6: deleting a path that is no file fails at the read of the previous
\* content: nothing is removed, no commit is made, no listener is invoked.
C6_DeleteMissingFailsAtRead == [][C6_Step]_vars

C6_Witness ==
    /\ lastReq.op = "delete" /\ lastReq.status = 500
    /\ lastReq.trace = <<"getSecurePath", "readFile">>
    /\ lastReq.filePath \notin DOMAIN files

\* C7: the access check precedes every read or write of the tenant's files;
\* a denied request has touched no file, made no commit and notified nobody.
C7_AccessCheckedFirst ==
    (lastReq.op # "none" /\ ~lastReq.granted) =>
        /\ ~Touched(lastReq)
        /\ lastReq.commits = 0
        /\ lastReq.invoked = <<>>

-----------------------------------------------------------------------------
(* The SSH sandbox manager (ssh.mjs).  Every execSSH is one step: the       *)
(* connection is made, the command runs in the container, the exit status   *)
(* comes back.  The container may become unreachable between two steps.     *)

Slots == 1..NumSlots

NotAccessible == "SSH container is not accessible"
DoesNotExist == "User does not exist"

NoResult ==
    [status |-> "", error |-> "", username |-> "", port |-> 0, password |-> NoPassword,
     output |-> ""]

Idle ==
    [op |-> "idle", route |-> "", userId |-> "", pc |-> "done", password |-> NoPassword,
     key |-> <<>>,
     sent |-> <<>>, checked |-> FALSE, reachableAtCheck |-> FALSE,
     probed |-> FALSE, existedAtProbe |-> FALSE, noAccount |-> FALSE,
     exitedZero |-> FALSE, result |-> NoResult]

ExitsZeroUseraddTwice(accs, command, userId) ==
    command \in {"echo", "hostname", "useradd"} \/ accs[userId].exists

\* the exit status of a command in the container is zero
ExitsZero(accs, command, userId) ==
    CASE command = "echo" -> TRUE
      [] command = "hostname" -> TRUE
      [] command = "id" -> accs[userId].exists
      [] command = "useradd" -> ~accs[userId].exists
      [] command = "chpasswd" -> accs[userId].exists
      [] command = "deluser" -> accs[userId].exists
      [] command = "authorized_keys" -> accs[userId].exists
      [] command = "chown" -> accs[userId].exists

\* execSSH(command): the promise resolves when the connection is made and
\* the command exits with status zero, and rejects otherwise
execSSH(conn, accs, command, userId) == conn /\ ExitsZero(accs, command, userId)

isContainerAccessibleAlways(conn, accs) == TRUE

\* isContainerAccessible(): execSSH('echo "test"'), false on any error
isContainerAccessible(conn, accs) == execSSH(conn, accs, "echo", "")

userExistsAlways(conn, accs, userId) == TRUE

\* userExists(userId): execSSH(`id ${username}`), false on any error
userExists(conn, accs, userId) == execSSH(conn, accs, "id", userId)

\* publicKey.trim()
RECURSIVE TrimStart(_)
TrimStart(k) == IF k # <<>> /\ Head(k) \in {" ", "\n"} THEN TrimStart(Tail(k)) ELSE k
RECURSIVE TrimEnd(_)
TrimEnd(k) ==
    IF k # <<>> /\ k[Len(k)] \in {" ", "\n"} THEN TrimEnd(SubSeq(k, 1, Len(k) - 1)) ELSE k
Trim(k) == TrimEnd(TrimStart(k))

generatePasswordFixed(n) == <<"generated", 1>>

\* generatePassword(): 16 characters drawn from crypto.randomBytes; n counts
\* the draws, every draw is a password not drawn before
generatePassword(n) == <<"generated", n>>

\* the method returns or throws.  In POST /ssh/generateCredentials a
\* createUser that returns no password is followed by generatePassword and
\* changeUserPassword, and the answer carries userInfo with that password.
Finish(c, result) ==
    IF c.route = "generateCredentials" /\ result.status = "ok"
    THEN IF c.op = "createUser" /\ result.password = NoPassword
         THEN [c EXCEPT !.pc = "generatePassword"]
         ELSE [c EXCEPT !.pc = "done",
                        !.result = [NoResult EXCEPT !.status = "ok", !.username = c.userId,
                                                    !.port = sshPort,
                                                    !.password = c.password]]
    ELSE [c EXCEPT !.pc = "done", !.result = result]
Fail(c, error) == Finish(c, [NoResult EXCEPT !.status = "error", !.error = error])
Sent(c, command) == [c EXCEPT !.sent = Append(@, command)]

FirstStep(op) == IF op = "addSSHKey" THEN "exists" ELSE "accessible"

\* a caller starts createUser, changeUserPassword, deleteUser or addSSHKey
StartCall(s, op, userId, password, key) ==
    /\ nCalls < MaxCalls
    /\ call[s].pc = "done"
    /\ nCalls' = nCalls + 1
    /\ call' = [call EXCEPT ![s] =
            [Idle EXCEPT !.op = op, !.userId = userId, !.pc = FirstStep(op),
                         !.password = password, !.key = key,
                         !.noAccount = ~accounts[userId].exists]]
    /\ UNCHANGED <<reachable, accounts, nextPw, chowns>>
    /\ UNCHANGED <<fileVars, stepVars>>

\* createUser, changeUserPassword, deleteUser: the isContainerAccessible() check
CheckAccessible(s) ==
    LET c == [Sent(call[s], "echo") EXCEPT !.checked = TRUE, !.reachableAtCheck = reachable]
    IN
    /\ call[s].pc = "accessible"
    /\ call' = [call EXCEPT ![s] =
            IF isContainerAccessible(reachable, accounts)
            THEN [c EXCEPT !.pc = "exists"]
            ELSE Fail(c, NotAccessible)]
    /\ UNCHANGED <<reachable, accounts, nextPw, nCalls, chowns>>
    /\ UNCHANGED <<fileVars, stepVars>>

\* the step after the userExists() check of each method
AfterExists(op) ==
    CASE op = "createUser" -> "useradd"
      [] op = "changeUserPassword" -> "chpasswd"
      [] op = "deleteUser" -> "deluser"
      [] op = "addSSHKey" -> "authorized_keys"

\* the userExists(userId) check of every method
CheckExists(s) ==
    LET c0 == call[s]
        c == [Sent(c0, "id") EXCEPT !.probed = TRUE,
                                    !.existedAtProbe = accounts[c0.userId].exists]
        exists == userExists(reachable, accounts, c0.userId)
    IN
    /\ c0.pc = "exists"
    /\ call' = [call EXCEPT ![s] =
            IF c0.op = "createUser"
            THEN IF exists
                 THEN Finish(c, [NoResult EXCEPT !.status = "ok", !.username = c0.userId,
                                                 !.port = sshPort])
                 ELSE [c EXCEPT !.pc = AfterExists(c0.op)]
            ELSE IF exists
                 THEN [c EXCEPT !.pc = AfterExists(c0.op)]
                 ELSE Fail(c, DoesNotExist)]
    /\ UNCHANGED <<reachable, accounts, nextPw, nCalls, chowns>>
    /\ UNCHANGED <<fileVars, stepVars>>

\* createUser: useradd && chpasswd && chown -R && mkdir .ssh && chmod && chown
CreateUserCommand(s) ==
    LET c0 == call[s]
        c == Sent(c0, "useradd")
        userPassword == IF c0.password # NoPassword THEN c0.password
                        ELSE generatePassword(nextPw)
        ok == execSSH(reachable, accounts, "useradd", c0.userId)
    IN
    /\ c0.pc = "useradd"
    /\ nextPw' = IF c0.password # NoPassword THEN nextPw ELSE nextPw + 1
    /\ accounts' = IF ok
                   THEN [accounts EXCEPT ![c0.userId].exists = TRUE,
                                         ![c0.userId].password = userPassword]
                   ELSE accounts
    /\ call' = [t \in Slots |->
            IF t = s
            THEN IF ok
                 THEN Finish([c EXCEPT !.noAccount = FALSE, !.password = userPassword],
                             [NoResult EXCEPT !.status = "ok", !.username = c0.userId,
                                              !.port = sshPort, !.password = userPassword])
                 ELSE Fail(c, "Failed to create user")
            ELSE IF ok /\ call[t].userId = c0.userId
                 THEN [call[t] EXCEPT !.noAccount = FALSE]
                 ELSE call[t]]
    /\ UNCHANGED <<reachable, nCalls, chowns>>
    /\ UNCHANGED <<fileVars, stepVars>>

\* changeUserPassword: echo "user:password" | chpasswd
ChpasswdCommand(s) ==
    LET c0 == call[s]
        c == Sent(c0, "chpasswd")
        ok == execSSH(reachable, accounts, "chpasswd", c0.userId)
    IN
    /\ c0.pc = "chpasswd"
    /\ accounts' = IF ok THEN [accounts EXCEPT ![c0.userId].password = c0.password]
                   ELSE accounts
    /\ call' = [call EXCEPT ![s] =
            IF ok THEN Finish(c, [NoResult EXCEPT !.status = "ok"])
            ELSE Fail(c, "Failed to change password")]
    /\ UNCHANGED <<reachable, nextPw, nCalls, chowns>>
    /\ UNCHANGED <<fileVars, stepVars>>

\* deleteUser: deluser
DeluserCommand(s) ==
    LET c0 == call[s]
        c == Sent(c0, "deluser")
        ok == execSSH(reachable, accounts, "deluser", c0.userId)
    IN
    /\ c0.pc = "deluser"
    /\ accounts' = IF ok
                   THEN [accounts EXCEPT ![c0.userId].exists = FALSE,
                                         ![c0.userId].password = NoPassword]
                   ELSE accounts
    /\ call' = [call EXCEPT ![s] =
            IF ok THEN Finish(c, [NoResult EXCEPT !.status = "ok"])
            ELSE Fail(c, "Failed to delete user")]
    /\ UNCHANGED <<reachable, nextPw, nCalls, chowns>>
    /\ UNCHANGED <<fileVars, stepVars>>

\* what echo "${keyContent}" >> authorized_keys appends: keyContent is the
\* trimmed key and a newline, and echo ends its output with a newline
KeyContent(publicKey) == Trim(publicKey) \o <<"\n">>
EchoOutput(text) == text \o <<"\n">>

\* addSSHKey: touch && echo >> authorized_keys && chown && chmod 600
AuthorizedKeysCommand(s) ==
    LET c0 == call[s]
        c == Sent(c0, "authorized_keys")
        ok == execSSH(reachable, accounts, "authorized_keys", c0.userId)
        appended == [accounts EXCEPT ![c0.userId].keys = @ \o EchoOutput(KeyContent(c0.key))]
    IN
    /\ c0.pc = "authorized_keys"
    /\ accounts' = IF ok
                   THEN [appended EXCEPT ![c0.userId].keysOwner = c0.userId,
                                         ![c0.userId].keysMode = 600]
                   ELSE IF reachable THEN appended   \* chown fails: no such user
                   ELSE accounts
    /\ call' = [call EXCEPT ![s] =
            IF ok THEN Finish(c, [NoResult EXCEPT !.status = "ok"])
            ELSE Fail(c, "Failed to set key permissions")]
    /\ UNCHANGED <<reachable, nextPw, nCalls, chowns>>
    /\ UNCHANGED <<fileVars, stepVars>>

\* the "fileWritten" listener of initSshApi: adjustFilePermissions(appName,
\* path.join(branch, relativePath)) runs chown in the container
FileWritten(appName, relativePath) ==
    /\ nCalls < MaxCalls
    /\ nCalls' = nCalls + 1
    /\ chowns' = IF execSSH(reachable, accounts, "chown", appName)
                 THEN Append(chowns, [appName |-> appName, path |-> relativePath])
                 ELSE chowns
    /\ UNCHANGED <<reachable, accounts, nextPw, call>>
    /\ UNCHANGED <<fileVars, stepVars>>

\* the container, or the network to it, goes down or comes back
SetReachable ==
    /\ reachable' = ~reachable
    /\ UNCHANGED <<accounts, nextPw, call, nCalls, chowns>>
    /\ UNCHANGED <<fileVars, stepVars>>

-----------------------------------------------------------------------------

\* the saves that run at once
SaveSlots == {1, 2}

IdleSave ==
    [pc |-> "idle", dir |-> <<>>, path |-> <<>>, data |-> "", message |-> NoMessage,
     filesDirectory |-> <<>>, filePath |-> <<>>, previousContent |-> "",
     changed |-> FALSE, wroteAt |-> 0, commitsAtStart |-> 0, status |-> 0]

InitFiles ==
    /\ files = EmptyTree
    /\ dirs = UNION { Prefixes(pathJoin(TenantRoot(t), DEFAULT_DIR)) :
                        t \in Tenants \cup {OtherTenant} }
    /\ repos = [r \in {} |-> <<>>]
    /\ lastReq = NoRequest
    /\ nReq = 0

InitSsh ==
    /\ reachable = TRUE
    /\ accounts = [u \in Users |->
            [exists |-> FALSE, password |-> NoPassword, keys |-> <<>>,
             keysOwner |-> "", keysMode |-> 0]]
    /\ nextPw = 1
    /\ call = [s \in Slots |-> Idle]
    /\ nCalls = 0
    /\ chowns = <<>>

\* no save is in progress and nothing is staged
InitSteps ==
    /\ index = [r \in {} |-> EmptyTree]
    /\ saves = [i \in SaveSlots |-> IdleSave]

Init == InitFiles /\ InitSsh /\ InitSteps

Next ==
    \/ \E appName \in Tenants, in \in Inputs :
            Save(appName, in.dir, in.path, in.granted)
    \/ \E appName \in Tenants, in \in Inputs :
            CreateDir(appName, in.dir, in.path, in.granted)
    \/ \E appName \in Tenants, in \in Inputs, bodyParsed \in BOOLEAN :
            Delete(appName, in.dir, in.path, in.granted, bodyParsed)
    \/ \E appName \in Tenants, in \in Inputs, bodyParsed \in BOOLEAN :
            DeleteDir(appName, in.dir, in.path, in.granted, bodyParsed)
    \/ \E appName \in Tenants, in \in Inputs :
            ReadContent(appName, in.dir, in.path, in.granted)
    \/ \E appName \in Tenants, in \in ListInputs :
            ListFiles(appName, in.dir, in.granted)

Spec == Init /\ [][Next]_vars

Methods == {"createUser", "changeUserPassword", "deleteUser", "addSSHKey"}

\* the arguments a method reads: a password, a public key
PasswordsOf(op) ==
    CASE op = "createUser" -> GivenPasswords \cup {NoPassword}
      [] op = "changeUserPassword" -> GivenPasswords
      [] OTHER -> {NoPassword}
KeysOf(op) == IF op = "addSSHKey" THEN PublicKeys ELSE {<<>>}

NextSsh ==
    \/ \E s \in Slots, op \in Methods, userId \in Users :
            \E password \in PasswordsOf(op), key \in KeysOf(op) :
                StartCall(s, op, userId, password, key)
    \/ \E s \in Slots : CheckAccessible(s)
    \/ \E s \in Slots : CheckExists(s)
    \/ \E s \in Slots : CreateUserCommand(s)
    \/ \E s \in Slots : ChpasswdCommand(s)
    \/ \E s \in Slots : DeluserCommand(s)
    \/ \E s \in Slots : AuthorizedKeysCommand(s)
    \/ \E appName \in Users : FileWritten(appName, <<"public", "f">>)
    \/ SetReachable

SpecSsh == Init /\ [][NextSsh]_vars

-----------------------------------------------------------------------------
(* Properties of the SSH sandbox manager *)

\* the commands that create an account or set a password
AccountCommands == {"useradd", "chpasswd"}

\* the commands that change the accounts of the container
MutatingCommands == {"useradd", "chpasswd", "deluser", "authorized_keys"}

\* C8: createUser on an account that exists sends no command that creates an
\* account or sets a password and returns the account name and the port
\* without a password; only the call that created the account returns one.
C8_CreateUserIdempotent ==
    \A s \in Slots :
        LET c == call[s] IN
        /\ (c.op = "createUser" /\ c.probed /\ c.existedAtProbe) =>
                /\ Range(c.sent) \cap AccountCommands = {}
                /\ c.pc = "done" =>
                        c.result = [NoResult EXCEPT !.status = "ok", !.username = c.userId,
                                                    !.port = sshPort]
        /\ (c.op = "createUser" /\ c.result.password # NoPassword) =>
                /\ "useradd" \in Range(c.sent)
                /\ ~c.existedAtProbe

\* C9: with the container unreachable at their isContainerAccessible check,
\* createUser, changeUserPassword and deleteUser fail with "SSH container is
\* not accessible" and have sent nothing but the probe.
C9_UnreachableFailsFirst ==
    \A s \in Slots :
        LET c == call[s] IN
        (c.op \in {"createUser", "changeUserPassword", "deleteUser"}
            /\ c.checked /\ ~c.reachableAtCheck) =>
                /\ c.pc = "done"
                /\ c.result = [NoResult EXCEPT !.status = "error", !.error = NotAccessible]
                /\ c.sent = <<"echo">>

C9_Witness ==
    \E s \in Slots :
        /\ call[s].op = "deleteUser" /\ call[s].checked /\ ~call[s].reachableAtCheck
        /\ call[s].pc = "done" /\ accounts[call[s].userId].exists

\* C10 as claimed: changeUserPassword, deleteUser and addSSHKey for a tenant
\* without an account fail with "does not exist" and change nothing.
C10_NoAccountFailsNotFound ==
    \A s \in Slots :
        LET c == call[s] IN
        (c.op \in {"changeUserPassword", "deleteUser", "addSSHKey"}
            /\ c.noAccount /\ c.pc = "done") =>
                /\ c.result = [NoResult EXCEPT !.status = "error", !.error = DoesNotExist]
                /\ Range(c.sent) \cap MutatingCommands = {}

\* C10 as amended: for a tenant without an account the three calls change
\* nothing and fail, with "does not exist" once the reachability check (which
\* addSSHKey does not make) has passed and with "SSH container is not
\* accessible" when it has not.
C10_NoAccountFailsUnchanged ==
    \A s \in Slots :
        LET c == call[s] IN
        (c.op \in {"changeUserPassword", "deleteUser", "addSSHKey"}
            /\ c.noAccount /\ c.pc = "done") =>
                /\ Range(c.sent) \cap MutatingCommands = {}
                /\ c.result.status = "error"
                /\ c.result.error =
                        IF c.op = "addSSHKey" \/ c.reachableAtCheck THEN DoesNotExist
                        ELSE NotAccessible

C10_Witness ==
    \E s \in Slots :
        /\ call[s].op = "changeUserPassword" /\ call[s].noAccount /\ call[s].pc = "done"
        /\ call[s].reachableAtCheck /\ call[s].result.error = DoesNotExist

\* C11: an addSSHKey call that succeeds appends to the account's
\* authorized_keys file exactly the trimmed public key and one newline, and
\* leaves the file owned by the account with mode 600.
C11_Step ==
    \A s \in Slots :
        (call[s].pc = "authorized_keys" /\ call'[s].pc = "done"
            /\ call'[s].result.status = "ok") =>
                LET u == call[s].userId IN
                /\ accounts'[u].keys = accounts[u].keys \o Trim(call[s].key) \o <<"\n">>
                /\ accounts'[u].keysOwner = u
                /\ accounts'[u].keysMode = 600

C11_AppendsTrimmedKeyAndNewline == [][C11_Step]_vars

-----------------------------------------------------------------------------
(* Branches: POST /createBranch/:appName/ and GET /listBranches/:appName    *)
(* (part_000 lines 97-132) with createBranchWithWorktree (git.mjs).  A      *)
(* linked worktree is a store of its own directory whose commits start as   *)
(* those of the source branch; its .git entry is a file.                    *)

\* req.body.branch, and names that do not match /^[a-zA-Z0-9-]+$/
BranchNames == {"feature-one", "dev"}
InvalidBranchNames == {"x_y"}

\* req.body.from
Froms == {"public", "dev"}

\* newBranchName.match(/^[a-zA-Z0-9-]+$/)
MatchesBranchName(newBranchName) == newBranchName \notin InvalidBranchNames

\* readdir(p): the names of the entries of directory p
readdir(fs, ds, p) ==
    { x[Len(p) + 1] : x \in { y \in DOMAIN fs \cup ds : IsPrefix(p, y) /\ y # p } }

\* stat(p) succeeds
statOk(fs, ds, p) == p \in DOMAIN fs \/ DirExists(ds, p)

\* a tree with its paths moved from under one root to under another
Rebase(tree, from, to) ==
    [q \in { to \o SubSeq(x, Len(from) + 1, Len(x)) : x \in DOMAIN tree } |->
        tree[from \o SubSeq(q, Len(to) + 1, Len(q))]]

RebaseCommits(commits, from, to) ==
    [i \in 1..Len(commits) |->
        [message |-> commits[i].message, tree |-> Rebase(commits[i].tree, from, to)]]

\* the directory is the linked worktree of a branch
IsWorktree(fs, p) == (p \o <<".git">>) \in DOMAIN fs

\* the directory of the branch sourceBranch names; "public" (or none) is HEAD
\* of the main store
SourceRoot(repoPath, branchesPath, sourceBranch) ==
    IF sourceBranch = "public" THEN repoPath ELSE pathJoin(branchesPath, <<sourceBranch>>)

\* git worktree add -b newBranchName <path> [sourceBranch] succeeds: the path
\* is free or an empty directory, no branch has the name, and the start point
\* is a commit.  On a store without any commit the outcome depends on the
\* installed git: orphanInferred is git >= 2.42, which makes an unborn branch.
worktreeAddOk(fs, ds, rs, repoPath, targetPath, source, sourceBranch, orphanInferred) ==
    /\ targetPath \notin DOMAIN fs
    /\ readdir(fs, ds, targetPath) = {}
    /\ mkdirsOk(fs, targetPath)
    /\ targetPath \notin DOMAIN rs
    /\ IF sourceBranch = "public"
       THEN CommitCountOf(rs, repoPath) > 0 \/ orphanInferred
       ELSE IsWorktree(fs, source) /\ CommitCountOf(rs, source) > 0

\* the files of the new worktree: the tree of the start point, and .git
worktreeFiles(fs, rs, targetPath, source) ==
    LET tree == Rebase(HeadTree(rs, source), source, targetPath)
        added == DOMAIN tree \cup {targetPath \o <<".git">>}
    IN [q \in DOMAIN fs \cup added |->
            IF q = targetPath \o <<".git">> THEN "gitdir"
            ELSE IF q \in DOMAIN tree THEN tree[q] ELSE fs[q]]

worktreeDirs(ds, fs1, targetPath) ==
    ds \cup Prefixes(targetPath)
       \cup UNION { Prefixes(pathDirname(q)) : q \in { x \in DOMAIN fs1 : IsPrefix(targetPath, x) } }

worktreeRepos(rs, targetPath, source) ==
    rs @@ (targetPath :>
            RebaseCommits(IF source \in DOMAIN rs THEN rs[source] ELSE <<>>, source, targetPath))

\* POST /createBranch/:appName/ : createBranchWithWorktree(repoPath,
\* req.body.branch, branchesPath, req.body.from), then readdir(branchesPath)
CreateBranch(appName, branch, from, granted, orphanInferred) ==
    LET repoPath == pathJoin(TenantRoot(appName), DEFAULT_DIR)
        branchesPath == pathJoin(TenantRoot(appName), <<BRANCHES_DIR>>)
        targetPath == pathJoin(branchesPath, <<branch>>)
        source == SourceRoot(repoPath, branchesPath, from)
        req == [Request("createBranch", appName, <<>>, <<>>, granted)
                    EXCEPT !.branch = branch, !.from = from, !.filePath = targetPath,
                           !.existed = statOk(files, dirs, targetPath),
                           !.headBorn = CommitCountOf(repos, repoPath) > 0,
                           !.branchesBefore = readdir(files, dirs, branchesPath)]
        ds1 == initGitDirs(dirs, repoPath)
        rs1 == initGitRepos(repos, repoPath)
        fs2 == worktreeFiles(files, rs1, targetPath, source)
    IN
    /\ nReq < MaxReq
    /\ nReq' = nReq + 1
    /\ UNCHANGED <<sshVars, stepVars>>
    /\ IF ~granted THEN
            /\ lastReq' = Reply(req, 403, <<"check">>)
            /\ UNCHANGED <<files, dirs, repos>>
       ELSE IF ~initGitOk(files, repoPath) THEN
            /\ lastReq' = [Reply(req, 500, <<"check", "initGitIfNotExists">>)
                              EXCEPT !.error = "init"]
            /\ UNCHANGED <<files, dirs, repos>>
       ELSE IF ~MatchesBranchName(branch) THEN
            /\ lastReq' = [Reply(req, 500, <<"check", "initGitIfNotExists", "match">>)
                              EXCEPT !.error = "Invalid branch name"]
            /\ dirs' = ds1
            /\ repos' = rs1
            /\ UNCHANGED files
       ELSE IF ~worktreeAddOk(files, ds1, rs1, repoPath, targetPath, source, from,
                              orphanInferred) THEN
            \* the "Directory already exists" error of line 644 is thrown inside
            \* the try block whose catch ignores every error
            /\ lastReq' = [Reply(req, 500,
                                 <<"check", "initGitIfNotExists", "match", "stat", "worktree">>)
                              EXCEPT !.error = "git"]
            /\ dirs' = ds1
            /\ repos' = rs1
            /\ UNCHANGED files
       ELSE /\ files' = fs2
            /\ dirs' = worktreeDirs(ds1, fs2, targetPath)
            /\ repos' = worktreeRepos(rs1, targetPath, source)
            /\ lastReq' = [Reply(req, 200,
                                 <<"check", "initGitIfNotExists", "match", "stat", "worktree",
                                   "readdir">>)
                              EXCEPT !.listing = readdir(fs2, worktreeDirs(ds1, fs2, targetPath),
                                                         branchesPath)]

\* GET /listBranches/:appName
ListBranches(appName, granted) ==
    LET req == Request("listBranches", appName, <<>>, <<>>, granted)
        filesDirectory == pathJoin(TenantRoot(appName), <<BRANCHES_DIR>>)
    IN
    /\ nReq < MaxReq
    /\ nReq' = nReq + 1
    /\ UNCHANGED <<files, repos>>
    /\ UNCHANGED <<sshVars, stepVars>>
    /\ IF ~granted THEN
            lastReq' = Reply(req, 403, <<"check">>) /\ UNCHANGED dirs
       ELSE IF ~statOk(files, dirs, filesDirectory) /\ ~mkdirsOk(files, filesDirectory) THEN
            lastReq' = Reply(req, 500, <<"check", "stat", "mkdirs">>) /\ UNCHANGED dirs
       ELSE IF filesDirectory \in DOMAIN files THEN
            lastReq' = Reply(req, 500, <<"check", "stat", "readdir">>) /\ UNCHANGED dirs
       ELSE /\ dirs' = mkdirs(dirs, filesDirectory)
            /\ lastReq' = [Reply(req, 200, <<"check", "stat", "readdir">>)
                              EXCEPT !.filePath = filesDirectory,
                                     !.listing = readdir(files, dirs, filesDirectory)]

\* the requests of the branch scenarios: saves to the default branch and to
\* a branch, and a directory made below the tenant's root
BranchSaves == { [dir |-> <<"public">>, path |-> <<"f">>], [dir |-> <<"dev">>, path |-> <<"f">>] }
BranchDirs == { [dir |-> <<>>, path |-> <<BRANCHES_DIR, "feature-one">>] }

NextBranch ==
    \/ \E appName \in Tenants, branch \in BranchNames \cup InvalidBranchNames,
          from \in Froms, granted \in BOOLEAN, orphanInferred \in BOOLEAN :
            CreateBranch(appName, branch, from, granted, orphanInferred)
    \/ \E appName \in Tenants, granted \in BOOLEAN : ListBranches(appName, granted)
    \/ \E appName \in Tenants, in \in BranchSaves : Save(appName, in.dir, in.path, TRUE)
    \/ \E appName \in Tenants, in \in BranchDirs : CreateDir(appName, in.dir, in.path, TRUE)

SpecBranch == Init /\ [][NextBranch]_vars

-----------------------------------------------------------------------------
(* Properties of branch creation *)

C12_Step ==
    LET r == lastReq' IN
    (/\ nReq' = nReq + 1 /\ r.op = "createBranch" /\ r.granted
     /\ MatchesBranchName(r.branch) /\ r.existed /\ r.error # "init") =>
        /\ r.status = 500
        /\ r.error = "Directory already exists"
        /\ "worktree" \notin Range(r.trace)
        /\ files' = files
        /\ { d \in dirs' : IsPrefix(r.filePath, d) } = { d \in dirs : IsPrefix(r.filePath, d) }

\* C12: createBranch on a target directory that exists fails with "Directory
\* already exists", raised by the stat check: the worktree is not attempted
\* and the directory is as it was.
C12_ExistingTargetFailsAtCheck == [][C12_Step]_vars

C13_Step ==
    LET r == lastReq' IN
    (/\ nReq' = nReq + 1 /\ r.op = "createBranch" /\ r.granted
     /\ ~MatchesBranchName(r.branch)) =>
        /\ r.status = 500
        /\ r.error = "Invalid branch name"
        /\ UNCHANGED <<files, dirs, repos>>

\* C13: createBranch with a name outside the allow-list fails with "Invalid
\* branch name" and changes nothing: no file, no directory and no history
\* store is made.
C13_InvalidNameHasNoSideEffect == [][C13_Step]_vars

\* C14: createBranch "feature-one" from the default branch of a workspace
\* without commits succeeds: the default store is initialised, the branch is
\* made and the branches listed are exactly "feature-one".
C14_BranchFromEmptyDefault ==
    (/\ lastReq.op = "createBranch" /\ lastReq.granted
     /\ lastReq.branch = "feature-one" /\ lastReq.from = "public"
     /\ ~lastReq.headBorn /\ ~lastReq.existed /\ lastReq.branchesBefore = {}) =>
        /\ lastReq.status = 200
        /\ pathJoin(TenantRoot(lastReq.appName), DEFAULT_DIR) \in DOMAIN repos
        /\ lastReq.listing = {"feature-one"}
        /\ readdir(files, dirs, pathJoin(TenantRoot(lastReq.appName), <<BRANCHES_DIR>>))
                = {"feature-one"}

-----------------------------------------------------------------------------
(* History queries: GET /git/history/commitContentDiff and                  *)
(* commitContentDiffHead (part_000 lines 420-450) with getFileContentDiff   *)
(* and getFileContentDiffWithHead (git.mjs).  A commit hash is the position *)
(* of the commit in its store; any other number names no commit.            *)

\* req.params.hash
Hashes == {1, 2}

\* the saves, reads and history queries of the history scenarios
HistoryInputs ==
    { [dir |-> <<"public">>, path |-> <<"f">>], [dir |-> <<"dev">>, path |-> <<"f">>],
      [dir |-> <<"public">>, path |-> <<"..", "..", "b", "public", "f">>] }

\* simpleGit(repoPath) throws when the directory does not exist
simpleGitOk(ds, repoPath) == DirExists(ds, repoPath)

\* git rev-parse `${commitHash}^`: the parent of a commit that has one
revParseParent(rs, repoPath, commitHash) ==
    [ok |-> repoPath \in DOMAIN rs /\ commitHash \in 2..Len(rs[repoPath]),
     hash |-> commitHash - 1]

\* rev-parse HEAD: the last commit of the store, 0 when there is none
HeadHash(rs, repoPath) == IF repoPath \in DOMAIN rs THEN Len(rs[repoPath]) ELSE 0

\* git.show([`${commitHash}:${filePath}`]): the file as of the commit; git
\* takes filePath from the top of the store and resolves no ".."
gitShow(rs, repoPath, commitHash, filePath) ==
    IF /\ repoPath \in DOMAIN rs
       /\ commitHash \in 1..Len(rs[repoPath])
       /\ (repoPath \o filePath) \in DOMAIN rs[repoPath][commitHash].tree
    THEN [ok |-> TRUE, data |-> rs[repoPath][commitHash].tree[repoPath \o filePath]]
    ELSE [ok |-> FALSE, data |-> ""]

NoDiff == [ok |-> FALSE, before |-> "", after |-> "", wasDeleted |-> FALSE, wasCreated |-> FALSE]

DiffOf(beforeContent, afterContent) ==
    [ok |-> TRUE, before |-> beforeContent, after |-> afterContent,
     wasDeleted |-> afterContent = "", wasCreated |-> beforeContent = ""]

\* getFileContentDiff(repoPath, commitHash, filePath): [ok |-> FALSE] is the
\* error rethrown by the outer catch
getFileContentDiff(ds, rs, repoPath, commitHash, filePath) ==
    LET parentHash == revParseParent(rs, repoPath, commitHash)
        shownBefore == gitShow(rs, repoPath, parentHash.hash, filePath)
        shownAfter == gitShow(rs, repoPath, commitHash, filePath)
    IN IF ~simpleGitOk(ds, repoPath) \/ ~parentHash.ok THEN NoDiff
       ELSE DiffOf(IF shownBefore.ok THEN shownBefore.data ELSE "",
                   IF shownAfter.ok THEN shownAfter.data ELSE "")

\* getFileContentDiffWithHead(repoPath, commitHash, filePath)
getFileContentDiffWithHead(ds, rs, repoPath, commitHash, filePath) ==
    LET shownBefore == gitShow(rs, repoPath, commitHash, filePath)
        shownAfter == gitShow(rs, repoPath, HeadHash(rs, repoPath), filePath)
    IN IF ~simpleGitOk(ds, repoPath) THEN NoDiff
       ELSE DiffOf(IF shownBefore.ok THEN shownBefore.data ELSE "",
                   IF shownAfter.ok THEN shownAfter.data ELSE "")

\* the answer of a history query
DiffReply(req, trace, result) ==
    IF ~result.ok THEN Reply(req, 500, trace)
    ELSE [Reply(req, 200, trace) EXCEPT !.before = result.before, !.after = result.after,
                                        !.wasDeleted = result.wasDeleted,
                                        !.wasCreated = result.wasCreated]

\* GET /git/history/commitContentDiff/:appName/:hash/:filePath
CommitContentDiff(appName, dir, hash, filePath, granted) ==
    LET req == [Request("commitContentDiff", appName, dir, filePath, granted)
                    EXCEPT !.hash = hash]
        sp == getSecurePath(dir, appName)
    IN
    /\ nReq < MaxReq
    /\ nReq' = nReq + 1
    /\ UNCHANGED <<files, dirs, repos>>
    /\ UNCHANGED <<sshVars, stepVars>>
    /\ lastReq' =
        IF ~granted THEN Reply(req, 403, <<"check">>)
        ELSE IF ~sp.ok THEN Reply(req, 500, <<"check", "getSecurePath">>)
        ELSE DiffReply(req, <<"check", "getSecurePath", "getFileContentDiff">>,
                       getFileContentDiff(dirs, repos, sp.path, hash, filePath))

\* GET /git/history/commitContentDiffHead/:appName/:hash/:filePath
CommitContentDiffHead(appName, dir, hash, filePath, granted) ==
    LET req == [Request("commitContentDiffHead", appName, dir, filePath, granted)
                    EXCEPT !.hash = hash]
        sp == getSecurePath(dir, appName)
    IN
    /\ nReq < MaxReq
    /\ nReq' = nReq + 1
    /\ UNCHANGED <<files, dirs, repos>>
    /\ UNCHANGED <<sshVars, stepVars>>
    /\ lastReq' =
        IF ~granted THEN Reply(req, 403, <<"check">>)
        ELSE IF ~sp.ok THEN Reply(req, 500, <<"check", "getSecurePath">>)
        ELSE DiffReply(req, <<"check", "getSecurePath", "getFileContentDiffWithHead">>,
                       getFileContentDiffWithHead(dirs, repos, sp.path, hash, filePath))

NextHistory ==
    \/ \E appName \in Tenants, in \in HistoryInputs : Save(appName, in.dir, in.path, TRUE)
    \/ \E appName \in Tenants, in \in HistoryInputs :
            Delete(appName, in.dir, in.path, TRUE, TRUE)
    \/ \E appName \in Tenants, in \in HistoryInputs :
            ReadContent(appName, in.dir, in.path, TRUE)
    \/ \E appName \in Tenants, in \in HistoryInputs, hash \in Hashes, granted \in BOOLEAN :
            CommitContentDiff(appName, in.dir, hash, in.path, granted)
    \/ \E appName \in Tenants, in \in HistoryInputs, hash \in Hashes, granted \in BOOLEAN :
            CommitContentDiffHead(appName, in.dir, hash, in.path, granted)

SpecHistory == Init /\ [][NextHistory]_vars

-----------------------------------------------------------------------------
(* Properties of the history queries *)

\* the content of the file as of a commit of the store, "" when the commit
\* or the file is absent
ContentAt(rs, repoPath, hash, filePath) ==
    IF gitShow(rs, repoPath, hash, filePath).ok
    THEN gitShow(rs, repoPath, hash, filePath).data ELSE ""

\* C15: getFileContentDiff answers for every commit hash and file path: the
\* "before" side is the file at the parent, empty (created) when the commit
\* has no parent or the file was absent there; the "after" side is the file
\* at the commit, empty (deleted) when absent; it never answers an error.
C15_FileBeforeAfterNeverFails ==
    (/\ lastReq.op = "commitContentDiff" /\ lastReq.granted
     /\ getSecurePath(lastReq.dir, lastReq.appName).path \in DOMAIN repos) =>
        LET root == getSecurePath(lastReq.dir, lastReq.appName).path IN
        /\ lastReq.status = 200
        /\ lastReq.before = ContentAt(repos, root, lastReq.hash - 1, lastReq.path)
        /\ lastReq.after = ContentAt(repos, root, lastReq.hash, lastReq.path)
        /\ lastReq.wasCreated = (lastReq.before = "")
        /\ lastReq.wasDeleted = (lastReq.after = "")

C16_Step ==
    LET w == lastReq
        r == lastReq'
        same == r.appName = w.appName /\ r.dir = w.dir /\ r.path = w.path /\ r.granted
    IN (nReq' = nReq + 1 /\ w.op = "save" /\ w.status = 200 /\ same) =>
        /\ r.op = "content" => (r.status = 200 /\ r.content = w.content)
        /\ (r.op = "commitContentDiffHead"
                /\ r.hash = HeadHash(repos, getSecurePath(w.dir, w.appName).path)) =>
                    (r.status = 200 /\ r.after = w.content)

\* C16: after a successful save of content C to path P in a branch, reading
\* P in that branch returns C, and getFileContentDiffWithHead for the last
\* commit and P returns C as its "after" content.
C16_SaveRoundTrip == [][C16_Step]_vars

-----------------------------------------------------------------------------
(* Concurrent createUser calls *)

NextProvision ==
    \/ \E s \in Slots, userId \in Users, password \in PasswordsOf("createUser") :
            StartCall(s, "createUser", userId, password, <<>>)
    \/ \E s \in Slots : CheckAccessible(s)
    \/ \E s \in Slots : CheckExists(s)
    \/ \E s \in Slots : CreateUserCommand(s)
    \/ SetReachable

SpecProvision == Init /\ [][NextProvision]_vars

\* the finished createUser calls for a tenant, and those whose useradd made
\* the account
Provisioned(u) ==
    { s \in Slots : call[s].op = "createUser" /\ call[s].userId = u /\ call[s].pc = "done" }
Creators(u) ==
    { s \in Provisioned(u) : "useradd" \in Range(call[s].sent) /\ call[s].result.status = "ok" }

\* C17: of the createUser calls for one tenant, however their steps
\* interleave, at most one creates the account and at most one returns a
\* password; every other call ends with an error or with the account's name
\* and port and no password.
C17_OneAccountPerTenant ==
    \A u \in Users :
        /\ Cardinality(Creators(u)) <= 1
        /\ Creators(u) # {} => accounts[u].exists
        /\ \A s \in Provisioned(u) :
            LET r == call[s].result IN
            IF s \in Creators(u)
            THEN r.password # NoPassword /\ r.password = accounts[u].password
            ELSE \/ r.status = "error" /\ r.password = NoPassword
                 \/ r = [NoResult EXCEPT !.status = "ok", !.username = u, !.port = sshPort]

\* both calls passed the existence check before either created the account:
\* one made it, the other failed at its useradd
C17_Witness ==
    \E s, t \in Slots :
        /\ s # t /\ call[s].userId = call[t].userId
        /\ call[s].op = "createUser" /\ call[t].op = "createUser"
        /\ call[s].pc = "done" /\ call[t].pc = "done"
        /\ "useradd" \in Range(call[s].sent) /\ "useradd" \in Range(call[t].sent)
        /\ ~call[s].existedAtProbe /\ ~call[t].existedAtProbe
        /\ call[s].result.status = "ok"
        /\ call[t].result = [NoResult EXCEPT !.status = "error",
                                             !.error = "Failed to create user"]
        /\ reachable

-----------------------------------------------------------------------------
(* Concurrent saves: POST /files/:appName/save (part_000 lines 162-209) and *)
(* commitAllChanges (git.mjs), one step per awaited call.  The path check   *)
(* and the access check have passed.                                        *)

\* the saves of the race: one branch, two paths
RacePaths == { <<"f">>, <<"g">> }
RaceDir == DEFAULT_DIR

gitAddNothing(fs, rs, idx, repoPath) == idx

\* git.add('.'): the index becomes the tracked working tree
gitAdd(fs, rs, idx, repoPath) == [idx EXCEPT ![repoPath] = Tracked(fs, rs, repoPath)]

\* the two trees differ at the path
Differs(t1, t2, p) == ~(p \in DOMAIN t1 /\ p \in DOMAIN t2 /\ t1[p] = t2[p])

\* git.status(): status.files, the paths staged (index against the last
\* commit) or not staged (working tree against the index)
gitStatusFiles(fs, rs, idx, repoPath) ==
    LET work == Tracked(fs, rs, repoPath)
        staged == idx[repoPath]
        head == HeadTree(rs, repoPath)
    IN { p \in DOMAIN work \cup DOMAIN staged \cup DOMAIN head :
            Differs(head, staged, p) \/ Differs(staged, work, p) }

\* git.commit(commitMessage): a commit of the index; with nothing staged git
\* reports "nothing to commit" on its standard output and makes none
gitCommit(rs, idx, repoPath, commitMessage) ==
    IF idx[repoPath] = HeadTree(rs, repoPath) THEN rs
    ELSE [rs EXCEPT ![repoPath] = Append(@, [message |-> commitMessage, tree |-> idx[repoPath]])]

\* the request arrives: getSecurePath and path.join
StartSave(i, appName, path, upload) ==
    LET filesDirectory == getSecurePath(RaceDir, appName).path
        filePath == pathJoin(filesDirectory, path)
    IN
    /\ saves[i].pc = "idle"
    /\ saves' = [saves EXCEPT ![i] =
            [IdleSave EXCEPT !.pc = "mkdirs", !.dir = RaceDir, !.path = path,
                             !.data = upload.data,
                             !.message = IF upload.commitMessage # ""
                                         THEN CustomMessage(upload.commitMessage)
                                         ELSE DefaultMessage("Save file", filesDirectory,
                                                             filePath),
                             !.filesDirectory = filesDirectory, !.filePath = filePath,
                             !.commitsAtStart = CommitCountOf(repos, filesDirectory)]]
    /\ UNCHANGED <<fileVars, sshVars, index>>

\* the save ends with this status
EndSave(i, status) == saves' = [saves EXCEPT ![i].pc = "done", ![i].status = status]

\* await mkdirs(path.dirname(filePath))
SaveMkdirs(i) ==
    LET sv == saves[i] IN
    /\ sv.pc = "mkdirs"
    /\ IF mkdirsOk(files, pathDirname(sv.filePath))
       THEN /\ dirs' = mkdirs(dirs, pathDirname(sv.filePath))
            /\ saves' = [saves EXCEPT ![i].pc = "readFile"]
       ELSE EndSave(i, 500) /\ UNCHANGED dirs
    /\ UNCHANGED <<files, repos, lastReq, nReq, sshVars, index>>

\* previousContent = await readFile(filePath), undefined when it throws
SaveReadFile(i) ==
    LET sv == saves[i] IN
    /\ sv.pc = "readFile"
    /\ saves' = [saves EXCEPT ![i].pc = "writeFile",
                              ![i].previousContent = readFile(files, sv.filePath).data]
    /\ UNCHANGED <<fileVars, sshVars, index>>

\* await writeFile(filePath, req.file.buffer), then stat
SaveWriteFile(i) ==
    LET sv == saves[i]
        writes == { saves[j].wroteAt : j \in SaveSlots }
    IN
    /\ sv.pc = "writeFile"
    /\ IF writeFileOk(files, dirs, sv.filePath)
       THEN /\ files' = writeFile(files, sv.filePath, sv.data)
            /\ saves' = [saves EXCEPT ![i].pc = "initGit",
                                      ![i].wroteAt = 1 + CHOOSE n \in writes :
                                                            \A k \in writes : k <= n]
       ELSE EndSave(i, 500) /\ UNCHANGED files
    /\ UNCHANGED <<dirs, repos, lastReq, nReq, sshVars, index>>

\* commitAllChanges: await initGitIfNotExists(repoPath)
SaveInitGit(i) ==
    LET sv == saves[i]
        repoPath == sv.filesDirectory
    IN
    /\ sv.pc = "initGit"
    /\ IF initGitOk(files, repoPath)
       THEN /\ dirs' = initGitDirs(dirs, repoPath)
            /\ repos' = initGitRepos(repos, repoPath)
            /\ index' = IF repoPath \in DOMAIN index THEN index
                        ELSE index @@ (repoPath :> EmptyTree)
            /\ saves' = [saves EXCEPT ![i].pc = "add"]
       ELSE EndSave(i, 500) /\ UNCHANGED <<dirs, repos, index>>
    /\ UNCHANGED <<files, lastReq, nReq, sshVars>>

\* commitAllChanges: await git.add('.')
SaveGitAdd(i) ==
    LET sv == saves[i] IN
    /\ sv.pc = "add"
    /\ index' = gitAdd(files, repos, index, sv.filesDirectory)
    /\ saves' = [saves EXCEPT ![i].pc = "status"]
    /\ UNCHANGED <<fileVars, sshVars>>

\* commitAllChanges: status = await git.status(); status.files.length > 0
SaveGitStatus(i) ==
    LET sv == saves[i]
        changed == gitStatusFiles(files, repos, index, sv.filesDirectory) # {}
    IN
    /\ sv.pc = "status"
    /\ saves' = [saves EXCEPT ![i].changed = changed,
                              ![i].pc = IF changed THEN "commit" ELSE "notify"]
    /\ UNCHANGED <<fileVars, sshVars, index>>

\* commitAllChanges: await git.commit(commitMessage)
SaveGitCommit(i) ==
    LET sv == saves[i] IN
    /\ sv.pc = "commit"
    /\ repos' = gitCommit(repos, index, sv.filesDirectory, sv.message)
    /\ saves' = [saves EXCEPT ![i].pc = "notify"]
    /\ UNCHANGED <<files, dirs, lastReq, nReq, sshVars, index>>

\* await onFileChange(...), then res.json({success: true, ...})
SaveNotify(i) ==
    /\ saves[i].pc = "notify"
    /\ \E thrower \in 0..NumListeners : EndSave(i, IF thrower = 0 THEN 200 ELSE 500)
    /\ UNCHANGED <<fileVars, sshVars, index>>

\* before the two saves the branch is empty, or holds f as a save left it
InitRace ==
    /\ InitSsh
    /\ dirs = UNION { Prefixes(pathJoin(TenantRoot(t), DEFAULT_DIR)) :
                        t \in Tenants \cup {OtherTenant} }
    /\ lastReq = NoRequest
    /\ nReq = 0
    /\ saves = [i \in SaveSlots |-> IdleSave]
    /\ \E appName \in Tenants, saved \in BOOLEAN :
        LET root == getSecurePath(RaceDir, appName).path
            file == pathJoin(root, <<"f">>)
            tree == (file :> "c1")
        IN IF saved
           THEN /\ files = tree
                /\ repos = (root :> <<[message |-> DefaultMessage("Save file", root, file),
                                       tree |-> tree]>>)
                /\ index = (root :> tree)
           ELSE /\ files = EmptyTree
                /\ repos = [r \in {} |-> <<>>]
                /\ index = [r \in {} |-> EmptyTree]

NextRace ==
    \/ \E i \in SaveSlots, appName \in Tenants, path \in RacePaths, upload \in Uploads :
            StartSave(i, appName, path, upload)
    \/ \E i \in SaveSlots : SaveMkdirs(i)
    \/ \E i \in SaveSlots : SaveReadFile(i)
    \/ \E i \in SaveSlots : SaveWriteFile(i)
    \/ \E i \in SaveSlots : SaveInitGit(i)
    \/ \E i \in SaveSlots : SaveGitAdd(i)
    \/ \E i \in SaveSlots : SaveGitStatus(i)
    \/ \E i \in SaveSlots : SaveGitCommit(i)
    \/ \E i \in SaveSlots : SaveNotify(i)

SpecRace == InitRace /\ [][NextRace]_vars

-----------------------------------------------------------------------------
(* Properties of concurrent saves *)

\* both saves have written, committed and answered
BothSaved == \A i \in SaveSlots : saves[i].pc = "done" /\ saves[i].wroteAt > 0

RaceRoot == saves[1].filesDirectory

\* the commits of the store before the first of the two saves began
CommitsBefore ==
    IF saves[1].commitsAtStart <= saves[2].commitsAtStart
    THEN saves[1].commitsAtStart ELSE saves[2].commitsAtStart

TreeBefore == IF CommitsBefore = 0 THEN EmptyTree ELSE repos[RaceRoot][CommitsBefore].tree

CommitsOfPair == CommitCountOf(repos, RaceRoot) - CommitsBefore

\* the save that wrote last
LastWriter == CHOOSE i \in SaveSlots : \A j \in SaveSlots : saves[j].wroteAt <= saves[i].wroteAt

\* the tip holds the working tree, each written path holds the content of the
\* save that wrote it last, and at most two commits were made
RaceOutcome ==
    /\ HeadTree(repos, RaceRoot) = Tracked(files, repos, RaceRoot)
    /\ \A i \in SaveSlots :
        LET sv == saves[i]
            tip == HeadTree(repos, RaceRoot)
        IN /\ sv.filePath \in DOMAIN tip
           /\ tip[sv.filePath] =
                IF saves[1].filePath = saves[2].filePath THEN saves[LastWriter].data
                ELSE sv.data
    /\ CommitsOfPair <= 2

\* C18 as claimed: once two concurrent saves to one branch have completed,
\* the tip holds the final content of both written paths, between one and
\* two commits were made, and on one path the last writer's content stays.
C18_RaceCommitsOneOrTwo ==
    BothSaved => (RaceOutcome /\ CommitsOfPair >= 1)

\* C18 as amended: as claimed, but with between zero and two commits, at
\* least one whenever the final tree differs from the tip before the two
\* saves.
C18_RaceLeavesNothingUncommitted ==
    BothSaved =>
        /\ RaceOutcome
        /\ (Tracked(files, repos, RaceRoot) # TreeBefore) => CommitsOfPair >= 1

\* the two saves wrote different paths and one commit took both changes
C18_Witness ==
    /\ BothSaved
    /\ saves[1].filePath # saves[2].filePath
    /\ CommitsOfPair = 1
    /\ \E i \in SaveSlots : ~saves[i].changed

-----------------------------------------------------------------------------
(* testConnection and the value execSSH hands to its caller *)

\* what the command writes to its standard output, trimmed
Stdout(command) == <<"stdout", command>>

\* resolve({stdout, stderr}): the value of the promise made in execSSH
PromiseValue(command) == [defined |-> TRUE, stdout |-> Stdout(command)]

\* the value of `await this.execSSH(command)` when the promise resolves:
\* execSSH ends with `await promise;` and returns nothing
execSSHValue(command) == [defined |-> FALSE, stdout |-> <<>>]

\* testConnection(): const { stdout } = await this.execSSH('hostname && whoami
\* && uptime'); every error, the TypeError of destructuring undefined
\* included, becomes {success: false, error}
TestConnection(s) ==
    LET resolved == execSSH(reachable, accounts, "hostname", "")
        value == execSSHValue("hostname")
        c == [Sent([Idle EXCEPT !.op = "testConnection"], "hostname")
                EXCEPT !.exitedZero = resolved]
    IN
    /\ nCalls < MaxCalls
    /\ call[s].pc = "done"
    /\ nCalls' = nCalls + 1
    /\ call' = [call EXCEPT ![s] =
            IF ~resolved THEN Fail(c, "SSH connection failed")
            ELSE IF ~value.defined THEN Fail(c, "TypeError")
            ELSE Finish(c, [NoResult EXCEPT !.status = "ok", !.output = value.stdout])]
    /\ UNCHANGED <<reachable, accounts, nextPw, chowns>>
    /\ UNCHANGED <<fileVars, stepVars>>

NextConnection ==
    \/ NextSsh
    \/ \E s \in Slots : TestConnection(s)

SpecConnection == Init /\ [][NextConnection]_vars

\* C19: execSSH hands the command's output to its caller exactly when the
\* command exits with status zero, so testConnection reports success with
\* that output when the command exited zero and failure otherwise.
C19_TestConnectionReportsExit ==
    \A s \in Slots :
        LET c == call[s] IN
        (c.op = "testConnection" /\ c.pc = "done") =>
            IF c.exitedZero
            THEN c.result.status = "ok" /\ c.result.output = PromiseValue("hostname").stdout
            ELSE c.result.status = "error"

-----------------------------------------------------------------------------
(* POST /ssh/generateCredentials (ssh.mjs lines 284-315) *)

\* the request arrives: createUser(userId) begins unless access is denied
StartGenerate(s, userId, granted) ==
    LET c == [Idle EXCEPT !.op = "createUser", !.route = "generateCredentials",
                          !.userId = userId, !.noAccount = ~accounts[userId].exists]
    IN
    /\ nCalls < MaxCalls
    /\ call[s].pc = "done"
    /\ nCalls' = nCalls + 1
    /\ call' = [call EXCEPT ![s] =
            IF granted THEN [c EXCEPT !.pc = FirstStep("createUser")]
            ELSE [c EXCEPT !.result = [NoResult EXCEPT !.status = "denied"]]]
    /\ UNCHANGED <<reachable, accounts, nextPw, chowns>>
    /\ UNCHANGED <<fileVars, stepVars>>

\* the account exists: newPassword = generatePassword(), then
\* changeUserPassword(userId, newPassword) begins
GenerateNewPassword(s) ==
    /\ call[s].pc = "generatePassword"
    /\ call' = [call EXCEPT ![s].op = "changeUserPassword",
                            ![s].password = generatePassword(nextPw),
                            ![s].pc = FirstStep("changeUserPassword")]
    /\ nextPw' = nextPw + 1
    /\ UNCHANGED <<reachable, accounts, nCalls, chowns>>
    /\ UNCHANGED <<fileVars, stepVars>>

NextCredentials ==
    \/ \E s \in Slots, userId \in Users, granted \in BOOLEAN : StartGenerate(s, userId, granted)
    \/ \E s \in Slots : CheckAccessible(s)
    \/ \E s \in Slots : CheckExists(s)
    \/ \E s \in Slots : CreateUserCommand(s)
    \/ \E s \in Slots : GenerateNewPassword(s)
    \/ \E s \in Slots : ChpasswdCommand(s)
    \/ SetReachable

SpecCredentials == Init /\ [][NextCredentials]_vars

C20_Step ==
    \A s \in Slots :
        (/\ call[s].route = "generateCredentials" /\ call[s].pc # "done"
         /\ call'[s].pc = "done" /\ call'[s].result.status = "ok") =>
            LET u == call[s].userId
                r == call'[s].result
                sent == call'[s].sent
            IN /\ r.username = u /\ r.password # NoPassword
               /\ accounts'[u].exists
               /\ accounts'[u].password = r.password
               /\ accounts[u].password # r.password
               /\ sent[Len(sent)] = IF accounts[u].exists THEN "chpasswd" ELSE "useradd"

\* C20: a generateCredentials request that succeeds creates the account when
\* there is none and sets a new password when there is one: the password it
\* returns is the account's password from then on, and the password the
\* account had before, returned by the request before it, is no longer valid.
C20_EveryRequestRotates == [][C20_Step]_vars

\* a second request for the tenant has set a new password on the account the
\* first one created
C20_Witness ==
    \E s \in Slots :
        LET c == call[s] IN
        /\ c.route = "generateCredentials" /\ c.pc = "done" /\ c.result.status = "ok"
        /\ c.sent[Len(c.sent)] = "chpasswd"
        /\ c.result.password = generatePassword(2)
        /\ accounts[c.userId].password = c.result.password

-----------------------------------------------------------------------------
(* Properties of the change notification *)

Mutations == {"save", "delete", "deleteDir"}

\* C21: for a save, delete or deleteDir whose mutation and commit have
\* completed every registered listener is invoked, once, in registration
\* order; when the mutation or the commit fails no listener is invoked.
C21_ListenersAfterCommit ==
    (lastReq.op \in Mutations) =>
        /\ lastReq.invoked # <<>> => Passed(lastReq, "commitAllChanges")
        /\ lastReq.invoked =
                IF Passed(lastReq, "commitAllChanges")
                THEN [i \in 1..NumListeners |-> i] ELSE <<>>

\* C22: the notification of a save, delete or deleteDir carries the tenant,
\* the absolute path, the relative path the request named, the base path and
\* the change type; that of a delete carries the content before the deletion
\* and a null new content.
C22_NotificationPayload ==
    (lastReq.op \in Mutations /\ lastReq.invoked # <<>>) =>
        LET e == lastReq.event IN
        /\ e.appName = lastReq.appName
        /\ e.filePath = lastReq.filePath
        /\ e.relativePath = lastReq.path
        /\ e.basePath = getSecurePath(lastReq.dir, lastReq.appName).path
        /\ e.changeType = lastReq.op
        /\ lastReq.op = "delete" =>
                (e.previousContent = lastReq.content /\ e.newContent = "null")

-----------------------------------------------------------------------------
(* Properties of the branch listing *)

\* the branches createBranch has made: their directories are linked worktrees
CreatedBranches(appName) ==
    { b \in BranchNames :
        IsWorktree(files, pathJoin(TenantRoot(appName), <<BRANCHES_DIR, b>>)) }

\* C23: in every state the names listBranches returns are the branches that
\* createBranch has made; no other request makes a branch directory or a
\* history store of a branch.
C23_ListedBranchesAreCreated ==
    \A appName \in Tenants :
        LET branchesPath == pathJoin(TenantRoot(appName), <<BRANCHES_DIR>>) IN
        /\ readdir(files, dirs, branchesPath) = CreatedBranches(appName)
        /\ \A b \in BranchNames :
                pathJoin(branchesPath, <<b>>) \in DOMAIN repos => b \in CreatedBranches(appName)

-----------------------------------------------------------------------------
(* Properties of the account probe *)

\* C24: a call whose userExists probe was made while the account existed is
\* not told that the account is absent: it does not fail with "does not
\* exist", and createUser does not go on to create the account.
C24_ProbeFailureIsNotAbsence ==
    \A s \in Slots :
        LET c == call[s] IN
        (c.probed /\ c.existedAtProbe) =>
            /\ c.result.error # DoesNotExist
            /\ c.op = "createUser" => "useradd" \notin Range(c.sent)

-----------------------------------------------------------------------------
(* The commit count: GET /git/history/count/:appName (part_000 lines        *)
(* 372-386) with getCommitCount (git.mjs)                                   *)

\* the branch selectors and the saves of the count scenarios
CountDirs == {<<"public">>, <<"dev">>}
CountSaves == { [dir |-> <<"public">>, path |-> <<"f">>], [dir |-> <<"dev">>, path |-> <<"f">>] }

\* git rev-list --count HEAD: HEAD names a commit only once the store has one;
\* on a store without commits git exits with "unknown revision"
revListCount(rs, repoPath) ==
    [ok |-> CommitCountOf(rs, repoPath) > 0, count |-> CommitCountOf(rs, repoPath)]

\* getCommitCount(repoPath): initGitIfNotExists, then rev-list --count HEAD;
\* [ok |-> FALSE] is the error rethrown by the catch
getCommitCount(fs, rs, repoPath) ==
    IF ~initGitOk(fs, repoPath) THEN [ok |-> FALSE, count |-> 0]
    ELSE revListCount(initGitRepos(rs, repoPath), repoPath)

\* GET /git/history/count/:appName
HistoryCount(appName, dir, granted) ==
    LET req == Request("historyCount", appName, dir, <<>>, granted)
        sp == getSecurePath(dir, appName)
        counted == getCommitCount(files, repos, sp.path)
    IN
    /\ nReq < MaxReq
    /\ nReq' = nReq + 1
    /\ UNCHANGED files
    /\ UNCHANGED <<sshVars, stepVars>>
    /\ IF ~granted THEN
            lastReq' = Reply(req, 403, <<"check">>) /\ UNCHANGED <<dirs, repos>>
       ELSE IF ~sp.ok THEN
            /\ lastReq' = Reply(req, 500, <<"check", "getSecurePath">>)
            /\ UNCHANGED <<dirs, repos>>
       ELSE IF ~initGitOk(files, sp.path) THEN
            /\ lastReq' = [Reply(req, 500, <<"check", "getSecurePath", "initGitIfNotExists">>)
                              EXCEPT !.filePath = sp.path, !.error = "init"]
            /\ UNCHANGED <<dirs, repos>>
       ELSE /\ dirs' = initGitDirs(dirs, sp.path)
            /\ repos' = initGitRepos(repos, sp.path)
            /\ lastReq' =
                IF counted.ok
                THEN [Reply(req, 200, <<"check", "getSecurePath", "initGitIfNotExists",
                                        "rev-list", "json">>)
                         EXCEPT !.filePath = sp.path, !.count = counted.count]
                ELSE [Reply(req, 500, <<"check", "getSecurePath", "initGitIfNotExists",
                                        "rev-list">>)
                         EXCEPT !.filePath = sp.path, !.error = "rev-list"]

NextCount ==
    \/ \E appName \in Tenants, in \in CountSaves : Save(appName, in.dir, in.path, TRUE)
    \/ \E appName \in Tenants, in \in CountSaves :
            Delete(appName, in.dir, in.path, TRUE, TRUE)
    \/ \E appName \in Tenants, dir \in CountDirs, granted \in BOOLEAN :
            HistoryCount(appName, dir, granted)

SpecCount == Init /\ [][NextCount]_vars

\* C25: a commit count request on a workspace answers the number of commits
\* of its store: 0, and no error, for a store that was just initialized and
\* has no commit, and n after n commits.
C25_CountIsNumberOfCommits ==
    (lastReq.op = "historyCount" /\ Passed(lastReq, "initGitIfNotExists")) =>
        /\ lastReq.status = 200
        /\ lastReq.count = CommitCountOf(repos, lastReq.filePath)

====
